---- MODULE Spec2Model ----
(***************************************************************************)
(* Model of StagecoachProblem (src/stagecoach_solver.py): the staged graph *)
(* A; B,C,D; E,F,G; H,I; J, its mutable edge weights, the backward         *)
(* induction solver and the path reconstruction, together with the         *)
(* editor's "zero all weights" handler that writes the weights directly.   *)
(*                                                                         *)
(* A Python dict is modelled as the sequence of its <<key, value>> pairs   *)
(* in insertion order, so that iteration order (which decides ties in the  *)
(* solver) is part of the value.  The two tables the solver fills are      *)
(* only ever indexed, never iterated, and are modelled as functions.       *)
(***************************************************************************)
EXTENDS Integers, Sequences, FiniteSets, TLC

VARIABLES
    default_edges,  \* self.default_edges  (dict of dict)
    edges,          \* self.edges          (dict of dict)
    shared,         \* keys whose inner dict is ONE object in edges and default_edges
    cost_to_go,     \* self.cost_to_go     (empty until the first solve)
    next_node,      \* self.next_node      (empty until the first solve)
    call,           \* the last call made: <<name, argument, ...>>
    ret,            \* what that call returned (<<>> for None)
    err,            \* the exception that call raised, or "none"
    nops,           \* number of weight-mutating calls made so far
    solved          \* calls of solve_backward_induction so far: "never", "once", "again"

vars == <<default_edges, edges, shared, cost_to_go, next_node, call, ret, err, nops,
          solved>>

----------------------------------------------------------------------------
(* Bounds of the model. *)

\* the greatest weight given to set_edge_weight and set_random_weights
MaxW == 2
\* at most MaxOps weight-mutating calls in one run; the weights SpecSolve starts
\* from are those MaxOps such calls can leave
MaxOps == 2
\* the random source is one of the streams 0..MaxSeed
MaxSeed == 1

----------------------------------------------------------------------------
(* Python dict as a sequence of <<key, value>> pairs. *)

DictKeys(d) == { d[i][1] : i \in DOMAIN d }

DictHas(d, k) == \E i \in DOMAIN d : d[i][1] = k

DictIdx(d, k) == CHOOSE i \in DOMAIN d : d[i][1] = k

\* d[k]
DictGet(d, k) == d[DictIdx(d, k)][2]

\* d[k] = v : overwrite in place, or append a new key
DictSet(d, k, v) ==
    IF DictHas(d, k) THEN [d EXCEPT ![DictIdx(d, k)] = <<k, v>>]
    ELSE Append(d, <<k, v>>)

\* float('inf') and the finite numbers, with Python's + and <
Inf == [fin |-> FALSE, val |-> 0]

Num(n) == [fin |-> TRUE, val |-> n]

\* int + float
Plus(w, c) == IF c.fin THEN Num(w + c.val) ELSE Inf

\* a <= b in its place
LessOrEqual(a, b) == (a.fin /\ (~b.fin \/ a.val <= b.val)) \/ (~a.fin /\ ~b.fin)

\* a < b
Less(a, b) == a.fin /\ (~b.fin \/ a.val < b.val)

----------------------------------------------------------------------------
(* __init__ : the fixed topology. *)

stages ==
    << <<0, <<"A">> >>,
       <<1, <<"B", "C", "D">> >>,
       <<2, <<"E", "F", "G">> >>,
       <<3, <<"H", "I">> >>,
       <<4, <<"J">> >> >>

all_nodes == <<"A", "B", "C", "D", "E", "F", "G", "H", "I", "J">>

DefaultEdges ==
    << <<"A", << <<"B", 2>>, <<"C", 4>>, <<"D", 3>> >> >>,
       <<"B", << <<"E", 7>>, <<"F", 4>> >> >>,
       <<"C", << <<"E", 6>>, <<"F", 3>>, <<"G", 4>> >> >>,
       <<"D", << <<"F", 1>>, <<"G", 5>> >> >>,
       <<"E", << <<"H", 1>>, <<"I", 6>> >> >>,
       <<"F", << <<"H", 6>>, <<"I", 3>> >> >>,
       <<"G", << <<"H", 3>>, <<"I", 3>> >> >>,
       <<"H", << <<"J", 3>> >> >>,
       <<"I", << <<"J", 4>> >> >>,
       <<"J", << >> >> >>

\* {} : the two tables before the first solve
EmptyTable == [n \in {} |-> 0]

----------------------------------------------------------------------------
(* The object's dicts as a small heap: the two outer dicts and the set of  *)
(* keys whose inner dict is shared between them.                          *)

Heap == [edges |-> edges, default_edges |-> default_edges, shared |-> shared]

\* dict(edges) in its place: a new outer dict over the SAME inner dicts
_shallow_copy_edges(d) == [dict |-> d, shared |-> DictKeys(d)]

\* {node: dict(neighbors) for node, neighbors in edges.items()} : new outer
\* dict, new inner dicts, so nothing of the result is shared with the argument
_deep_copy_edges(d) ==
    [dict |-> [i \in DOMAIN d |-> <<d[i][1], [j \in DOMAIN d[i][2] |-> d[i][2][j]]>>],
     shared |-> {}]

\* self.edges[node][neighbor] = w ; a shared inner dict changes in both tables
StoreWeight(h, node, neighbor, w) ==
    [edges |-> DictSet(h.edges, node, DictSet(DictGet(h.edges, node), neighbor, w)),
     default_edges |->
        IF node \in h.shared
        THEN DictSet(h.default_edges, node,
                     DictSet(DictGet(h.default_edges, node), neighbor, w))
        ELSE h.default_edges,
     shared |-> h.shared]

\* reset_to_default
reset_to_default(h) ==
    LET c == _deep_copy_edges(h.default_edges)
    IN  [edges |-> c.dict, default_edges |-> h.default_edges, shared |-> c.shared]

\* set_edge_weight without the test of to_node: an unknown neighbor is added
set_edge_weight_unchecked(h, from_node, to_node, weight) ==
    IF DictHas(h.edges, from_node)
    THEN StoreWeight(h, from_node, to_node, weight)
    ELSE h

\* set_edge_weight
set_edge_weight(h, from_node, to_node, weight) ==
    IF DictHas(h.edges, from_node) /\ DictHas(DictGet(h.edges, from_node), to_node)
    THEN StoreWeight(h, from_node, to_node, weight)
    ELSE h

----------------------------------------------------------------------------
(* The random source.  random.randint(lo, hi) raises ValueError on an     *)
(* empty range, else returns an integer of lo..hi.  The source is an      *)
(* input of the model: its k-th draw comes from one of the streams        *)
(* Stream(seed, .), seed in 0..MaxSeed, reduced to the range.             *)

RECURSIVE Stream(_, _)
Stream(seed, k) == IF k = 0 THEN seed + 1 ELSE (3 * Stream(seed, k - 1)) % 31

randint(lo, hi, seed, k) == lo + (Stream(seed, k) % (hi - lo + 1))

\* the (node, neighbor) pairs in the order the two nested loops visit them
RECURSIVE EdgeOrder(_, _)
EdgeOrder(d, i) ==
    IF i > Len(d) THEN << >>
    ELSE [j \in DOMAIN d[i][2] |-> <<d[i][1], d[i][2][j][1]>>] \o EdgeOrder(d, i + 1)

\* the loop with its bounds put in order first: no error, every edge written
RECURSIVE RandomLoopSorted(_, _, _, _, _, _)
RandomLoopSorted(h, order, k, lo, hi, seed) ==
    IF k > Len(order) THEN [heap |-> h, err |-> "none"]
    ELSE RandomLoopSorted(
            StoreWeight(h, order[k][1], order[k][2],
                        IF lo > hi THEN randint(hi, lo, seed, k - 1)
                        ELSE randint(lo, hi, seed, k - 1)),
            order, k + 1, lo, hi, seed)

\* set_random_weights: one draw and one store per edge, in iteration order;
\* the draw comes first, so an error of randint leaves that edge unwritten
RECURSIVE RandomLoop(_, _, _, _, _, _)
RandomLoop(h, order, k, lo, hi, seed) ==
    IF k > Len(order) THEN [heap |-> h, err |-> "none"]
    ELSE IF lo > hi THEN [heap |-> h, err |-> "ValueError"]
    ELSE RandomLoop(StoreWeight(h, order[k][1], order[k][2], randint(lo, hi, seed, k - 1)),
                    order, k + 1, lo, hi, seed)

set_random_weights(h, min_val, max_val, seed) ==
    RandomLoop(h, EdgeOrder(h.edges, 1), 1, min_val, max_val, seed)

\* StagecoachGUI._reset_to_zero: every weight of problem.edges becomes 0
RECURSIVE ZeroLoop(_, _, _)
ZeroLoop(h, order, k) ==
    IF k > Len(order) THEN h
    ELSE ZeroLoop(StoreWeight(h, order[k][1], order[k][2], 0), order, k + 1)

_reset_to_zero(h) == ZeroLoop(h, EdgeOrder(h.edges, 1), 1)

----------------------------------------------------------------------------
(* solve_backward_induction *)

Tables == [cost_to_go |-> cost_to_go, next_node |-> next_node, err |-> "none"]

NodeSet == { all_nodes[i] : i \in DOMAIN all_nodes }

\* step 2 forgotten: the sink starts at infinity like every other node
ResetTablesNoSink(t) ==
    [cost_to_go |-> [n \in NodeSet |-> Inf],
     next_node |-> [n \in NodeSet |-> "None"],
     err |-> "none"]

\* step 1 done on the first solve only: later solves start from the old tables
ResetTablesKeep(t) ==
    IF DOMAIN t.cost_to_go = NodeSet
    THEN t
    ELSE [cost_to_go |-> [n \in NodeSet |-> IF n = "J" THEN Num(0) ELSE Inf],
          next_node |-> [n \in NodeSet |-> "None"],
          err |-> "none"]

\* the cost table reset on the first solve only, the next-hop table always
ResetTablesKeepCost(t) ==
    [cost_to_go |-> IF DOMAIN t.cost_to_go = NodeSet THEN t.cost_to_go
                    ELSE [n \in NodeSet |-> IF n = "J" THEN Num(0) ELSE Inf],
     next_node |-> [n \in NodeSet |-> "None"],
     err |-> "none"]

\* steps 1 and 2: both tables are built anew, whatever they held
ResetTables(t) ==
    [cost_to_go |-> [n \in NodeSet |-> IF n = "J" THEN Num(0) ELSE Inf],
     next_node |-> [n \in NodeSet |-> "None"],
     err |-> "none"]

\* the nodes in declaration order, the reversal forgotten
nodes_forward == all_nodes

\* list(reversed(self.all_nodes))
nodes_reversed == [i \in DOMAIN all_nodes |-> all_nodes[Len(all_nodes) + 1 - i]]

\* the inner loop without its comparison: the last neighbor always wins
RECURSIVE RelaxNeighborsNoCompare(_, _, _, _)
RelaxNeighborsNoCompare(t, current_node, neighbors, i) ==
    IF i > Len(neighbors) THEN t
    ELSE RelaxNeighborsNoCompare(
            [t EXCEPT !.cost_to_go[current_node] =
                          Plus(neighbors[i][2], t.cost_to_go[neighbors[i][1]]),
                      !.next_node[current_node] = neighbors[i][1]],
            current_node, neighbors, i + 1)

\* the inner loop: for neighbor, transition_cost in neighbors.items()
RECURSIVE RelaxNeighbors(_, _, _, _)
RelaxNeighbors(t, current_node, neighbors, i) ==
    IF i > Len(neighbors) THEN t
    ELSE LET neighbor == neighbors[i][1]
             transition_cost == neighbors[i][2]
         IN  IF neighbor \notin DOMAIN t.cost_to_go
             THEN [t EXCEPT !.err = "KeyError"]
             ELSE LET total_cost == Plus(transition_cost, t.cost_to_go[neighbor])
                  IN  RelaxNeighbors(
                        IF Less(total_cost, t.cost_to_go[current_node])
                        THEN [t EXCEPT !.cost_to_go[current_node] = total_cost,
                                       !.next_node[current_node] = neighbor]
                        ELSE t,
                        current_node, neighbors, i + 1)

\* the outer loop: for current_node in nodes_reversed
RECURSIVE BellmanLoop(_, _, _)
BellmanLoop(t, e, i) ==
    IF i > Len(nodes_reversed) \/ t.err # "none" THEN t
    ELSE LET current_node == nodes_reversed[i]
         IN  IF current_node = "J" THEN BellmanLoop(t, e, i + 1)
             ELSE BellmanLoop(
                    RelaxNeighbors(t, current_node,
                                   IF DictHas(e, current_node)
                                   THEN DictGet(e, current_node) ELSE << >>,
                                   1),
                    e, i + 1)

\* the loop stopping when the NEXT node is None: the last node is left out
RECURSIVE FollowLinksStopsEarly(_, _, _)
FollowLinksStopsEarly(nxt, current, path) ==
    IF current \notin DOMAIN nxt \/ nxt[current] = "None" THEN path
    ELSE FollowLinksStopsEarly(nxt, nxt[current], Append(path, current))

\* _reconstruct_path: follow next_node from 'A' until it gives None
RECURSIVE FollowLinks(_, _, _)
FollowLinks(nxt, current, path) ==
    IF current = "None" THEN path
    ELSE FollowLinks(nxt,
                     IF current \in DOMAIN nxt THEN nxt[current] ELSE "None",
                     Append(path, current))

_reconstruct_path(nxt) == FollowLinks(nxt, "A", << >>)

\* the whole call: the tables it leaves, the value it returns, its error
solve_backward_induction(e, t) ==
    LET u == BellmanLoop(ResetTables(t), e, 1)
    IN  IF u.err # "none"
        THEN [cost_to_go |-> u.cost_to_go, next_node |-> u.next_node,
              ret |-> << >>, err |-> u.err]
        ELSE [cost_to_go |-> u.cost_to_go, next_node |-> u.next_node,
              ret |-> <<u.cost_to_go["A"], _reconstruct_path(u.next_node)>>,
              err |-> "none"]

\* the loop one step short: range(len(path) - 2)
RECURSIVE DetailsLoopShort(_, _, _, _)
DetailsLoopShort(e, path, i, details) ==
    IF i > Len(path) - 2 THEN [ret |-> details, err |-> "none"]
    ELSE DetailsLoopShort(e, path, i + 1,
                          Append(details,
                                 <<path[i], path[i + 1],
                                   DictGet(DictGet(e, path[i]), path[i + 1])>>))

\* the loop reading the costs from the default weights instead of the
\* current edges
RECURSIVE DetailsLoopDefaultWeights(_, _, _, _)
DetailsLoopDefaultWeights(e, path, i, details) ==
    IF i > Len(path) - 1 THEN [ret |-> details, err |-> "none"]
    ELSE DetailsLoopDefaultWeights(e, path, i + 1,
                                   Append(details,
                                          <<path[i], path[i + 1],
                                            DictGet(DictGet(DefaultEdges, path[i]),
                                                    path[i + 1])>>))

\* get_path_details: one (from, to, cost) per consecutive pair of the path,
\* the cost read from the current edges
RECURSIVE DetailsLoop(_, _, _, _)
DetailsLoop(e, path, i, details) ==
    IF i > Len(path) - 1 THEN [ret |-> details, err |-> "none"]
    ELSE LET from_node == path[i]
             to_node == path[i + 1]
         IN  IF DictHas(e, from_node) /\ DictHas(DictGet(e, from_node), to_node)
             THEN DetailsLoop(e, path, i + 1,
                              Append(details,
                                     <<from_node, to_node,
                                       DictGet(DictGet(e, from_node), to_node)>>))
             ELSE [ret |-> << >>, err |-> "KeyError"]

\* get_path_details refusing to answer before the first solve
get_path_details_checked(e, nxt) ==
    IF DOMAIN nxt = {} THEN [ret |-> << >>, err |-> "NoSolutionComputed"]
    ELSE DetailsLoop(e, _reconstruct_path(nxt), 1, << >>)

get_path_details(e, nxt) == DetailsLoop(e, _reconstruct_path(nxt), 1, << >>)

----------------------------------------------------------------------------
(* Inputs of the calls. *)

\* weights given to set_edge_weight, and the ends of the ranges given to
\* set_random_weights (min > max included): the least and the greatest weight
Weights == {0, MaxW}

Seeds == 0..MaxSeed

\* (from, to) pairs given to set_edge_weight: edges of the topology, pairs of
\* known nodes that are no edge, and pairs with a label that is no node
EditPairs ==
    { <<"A", "D">>, <<"D", "F">>, <<"E", "H">>, <<"I", "J">>,
      <<"A", "J">>, <<"J", "A">>, <<"A", "Z">>, <<"Z", "A">> }

----------------------------------------------------------------------------
(* The calls as actions. *)

SetHeap(h) ==
    /\ edges' = h.edges
    /\ default_edges' = h.default_edges
    /\ shared' = h.shared

ResetToDefault ==
    /\ nops < MaxOps
    /\ SetHeap(reset_to_default(Heap))
    /\ call' = <<"reset_to_default">>
    /\ ret' = << >>
    /\ err' = "none"
    /\ nops' = nops + 1
    /\ UNCHANGED <<cost_to_go, next_node, solved>>

SetRandomWeights ==
    /\ nops < MaxOps
    /\ \E lo \in Weights, hi \in Weights, seed \in Seeds :
          LET r == set_random_weights(Heap, lo, hi, seed)
          IN  /\ SetHeap(r.heap)
              /\ call' = <<"set_random_weights", lo, hi, seed>>
              /\ err' = r.err
    /\ ret' = << >>
    /\ nops' = nops + 1
    /\ UNCHANGED <<cost_to_go, next_node, solved>>

SetEdgeWeight ==
    /\ nops < MaxOps
    /\ \E p \in EditPairs, w \in Weights :
          /\ SetHeap(set_edge_weight(Heap, p[1], p[2], w))
          /\ call' = <<"set_edge_weight", p[1], p[2], w>>
    /\ ret' = << >>
    /\ err' = "none"
    /\ nops' = nops + 1
    /\ UNCHANGED <<cost_to_go, next_node, solved>>

ResetToZero ==
    /\ nops < MaxOps
    /\ SetHeap(_reset_to_zero(Heap))
    /\ call' = <<"_reset_to_zero">>
    /\ ret' = << >>
    /\ err' = "none"
    /\ nops' = nops + 1
    /\ UNCHANGED <<cost_to_go, next_node, solved>>

Solve ==
    /\ LET r == solve_backward_induction(edges, Tables)
       IN  /\ cost_to_go' = r.cost_to_go
           /\ next_node' = r.next_node
           /\ ret' = r.ret
           /\ err' = r.err
    /\ call' = <<"solve_backward_induction">>
    /\ solved' = IF solved = "never" THEN "once" ELSE "again"
    /\ UNCHANGED <<default_edges, edges, shared, nops>>

GetPathDetails ==
    /\ LET r == get_path_details(edges, next_node)
       IN  /\ ret' = r.ret
           /\ err' = r.err
    /\ call' = <<"get_path_details">>
    /\ UNCHANGED <<default_edges, edges, shared, cost_to_go, next_node, nops, solved>>

----------------------------------------------------------------------------
Init ==
    /\ default_edges = DefaultEdges
    /\ edges = _deep_copy_edges(DefaultEdges).dict
    /\ shared = _deep_copy_edges(DefaultEdges).shared
    /\ cost_to_go = EmptyTable
    /\ next_node = EmptyTable
    /\ call = <<"__init__">>
    /\ ret = << >>
    /\ err = "none"
    /\ nops = 0
    /\ solved = "never"

Next ==
    \/ ResetToDefault
    \/ SetRandomWeights
    \/ SetEdgeWeight
    \/ ResetToZero
    \/ Solve
    \/ GetPathDetails

Spec == Init /\ [][Next]_vars

----------------------------------------------------------------------------
(* The solver as a function of the weights: SpecSolve starts from the      *)
(* object with weights already put in place and only solves and reads.     *)
(* The weights are those at most MaxOps weight-mutating calls can leave:   *)
(* the default weights with up to MaxOps edges overwritten by              *)
(* set_edge_weight, or the weights left by _reset_to_zero or by            *)
(* set_random_weights(0, MaxW) with up to MaxOps - 1 edges overwritten.    *)

FreshHeap == [edges |-> DefaultEdges, default_edges |-> DefaultEdges, shared |-> {}]

EdgePairs == { EdgeOrder(DefaultEdges, 1)[k] : k \in DOMAIN EdgeOrder(DefaultEdges, 1) }

\* d with the weight of every edge of DOMAIN f replaced by f's
Overwritten(d, f) ==
    [i \in DOMAIN d |->
        <<d[i][1],
          [j \in DOMAIN d[i][2] |->
              <<d[i][2][j][1],
                IF <<d[i][1], d[i][2][j][1]>> \in DOMAIN f
                THEN f[<<d[i][1], d[i][2][j][1]>>]
                ELSE d[i][2][j][2]>>]>>]

EditSets(n) == { s \in SUBSET EdgePairs : Cardinality(s) <= n }

\* the weights one wholesale call leaves, with the number of calls it takes
BaseWeights ==
    { [edges |-> DefaultEdges, calls |-> 0],
      [edges |-> _reset_to_zero(FreshHeap).edges, calls |-> 1] }
    \cup { [edges |-> set_random_weights(FreshHeap, 0, MaxW, seed).heap.edges, calls |-> 1]
           : seed \in Seeds }

InitSolve ==
    /\ default_edges = DefaultEdges
    /\ \E b \in BaseWeights :
          \E s \in EditSets(MaxOps - b.calls) :
             \E f \in [s -> Weights] :
                /\ edges = Overwritten(b.edges, f)
                /\ nops = b.calls + Cardinality(s)
    /\ shared = {}
    /\ cost_to_go = EmptyTable
    /\ next_node = EmptyTable
    /\ call = <<"__init__">>
    /\ ret = << >>
    /\ err = "none"
    /\ solved = "never"

NextSolve ==
    \/ Solve
    \/ GetPathDetails

SpecSolve == InitSolve /\ [][NextSolve]_vars

----------------------------------------------------------------------------
(* Two weight assignments that differ in one edge: SpecStaged solves,      *)
(* overwrites one edge with set_edge_weight, and solves again, so that in  *)
(* the state before the second solve the tables are those of the weights   *)
(* before the overwrite.  It starts from the weights MaxOps - 1 calls can  *)
(* leave, the overwrite being the last call.                               *)

InitStaged ==
    /\ default_edges = DefaultEdges
    /\ \E b \in BaseWeights :
          \E s \in EditSets(MaxOps - 1 - b.calls) :
             \E f \in [s -> Weights] :
                /\ edges = Overwritten(b.edges, f)
                /\ nops = b.calls + Cardinality(s)
    /\ shared = {}
    /\ cost_to_go = EmptyTable
    /\ next_node = EmptyTable
    /\ call = <<"__init__">>
    /\ ret = << >>
    /\ err = "none"
    /\ solved = "never"

\* set_edge_weight on any edge of the topology, right after the first solve
SetEdgeWeightAfterSolve ==
    /\ call[1] = "solve_backward_induction"
    /\ solved = "once"
    /\ \E p \in EdgePairs, w \in Weights :
          /\ SetHeap(set_edge_weight(Heap, p[1], p[2], w))
          /\ call' = <<"set_edge_weight", p[1], p[2], w>>
    /\ ret' = << >>
    /\ err' = "none"
    /\ nops' = nops + 1
    /\ UNCHANGED <<cost_to_go, next_node, solved>>

NextStaged ==
    \/ Solve
    \/ SetEdgeWeightAfterSolve

SpecStaged == InitStaged /\ [][NextStaged]_vars

----------------------------------------------------------------------------
(* The object built over the topology without its edges into the sink: H   *)
(* and I keep their entries, with no neighbor.  The calls are those of     *)
(* Spec.                                                                   *)

NotIntoSink(pair) == pair[1] # "J"

NoSinkEdges ==
    [i \in DOMAIN DefaultEdges |->
        <<DefaultEdges[i][1], SelectSeq(DefaultEdges[i][2], NotIntoSink)>>]

InitUnreachable ==
    /\ default_edges = NoSinkEdges
    /\ edges = _deep_copy_edges(NoSinkEdges).dict
    /\ shared = _deep_copy_edges(NoSinkEdges).shared
    /\ cost_to_go = EmptyTable
    /\ next_node = EmptyTable
    /\ call = <<"__init__">>
    /\ ret = << >>
    /\ err = "none"
    /\ nops = 0
    /\ solved = "never"

SpecUnreachable == InitUnreachable /\ [][Next]_vars

----------------------------------------------------------------------------
(* StagecoachGUI: the weight entries and the "find the shortest path"      *)
(* button.  The text of an entry is a sequence of characters; what the     *)
(* entries hold when the button is pressed is an input, since the user may *)
(* type into any of them first.                                            *)

Digits == <<"0", "1", "2", "3", "4", "5", "6", "7", "8", "9">>

IsDigit(ch) == \E d \in DOMAIN Digits : Digits[d] = ch

DigitValue(ch) == (CHOOSE d \in DOMAIN Digits : Digits[d] = ch) - 1

\* str(weight)
RECURSIVE str(_)
str(n) ==
    IF n < 0 THEN <<"-">> \o str(0 - n)
    ELSE IF n < Len(Digits) THEN <<Digits[n + 1]>>
    ELSE str(n \div Len(Digits)) \o <<Digits[(n % Len(Digits)) + 1]>>

\* the value of a non-empty run of digits
RECURSIVE DigitsValue(_, _)
DigitsValue(text, acc) ==
    IF text = << >> THEN acc
    ELSE DigitsValue(Tail(text), acc * Len(Digits) + DigitValue(Head(text)))

AllDigits(text) == text # << >> /\ \A i \in DOMAIN text : IsDigit(text[i])

\* int(text): an optional sign and at least one digit, else ValueError
int(text) ==
    IF AllDigits(text) THEN [ok |-> TRUE, val |-> DigitsValue(text, 0)]
    ELSE IF text # << >> /\ Head(text) = "-" /\ AllDigits(Tail(text))
         THEN [ok |-> TRUE, val |-> 0 - DigitsValue(Tail(text), 0)]
    ELSE IF text # << >> /\ Head(text) = "+" /\ AllDigits(Tail(text))
         THEN [ok |-> TRUE, val |-> DigitsValue(Tail(text), 0)]
    ELSE [ok |-> FALSE, val |-> 0]

\* the keys of self.weight_entries, in the order the entries were created
weight_entries == EdgeOrder(DefaultEdges, 1)

\* the entries the user types into, and what is typed: a weight, a negative
\* number, a text that is no number
TypedPairs == { <<"A", "B">>, <<"D", "F">>, <<"I", "J">> }

TypedTexts == { str(MaxW), <<"-", "1">>, <<"x">> }

\* what entry p holds: the typed text, else the text of the current weight
EntryText(e, typed, p) ==
    IF p \in DOMAIN typed THEN typed[p] ELSE str(DictGet(DictGet(e, p[1]), p[2]))

\* the try block: entry by entry, parse, refuse a negative, set the weight
RECURSIVE ApplyEntries(_, _, _, _)
ApplyEntries(h, e0, typed, k) ==
    IF k > Len(weight_entries) THEN [heap |-> h, err |-> "none"]
    ELSE LET weight == int(EntryText(e0, typed, weight_entries[k]))
         IN  IF ~weight.ok \/ weight.val < 0
             THEN [heap |-> h, err |-> "ValueError"]
             ELSE ApplyEntries(set_edge_weight(h, weight_entries[k][1],
                                               weight_entries[k][2], weight.val),
                               e0, typed, k + 1)

\* _solve_and_display: on ValueError the error box is shown and the handler
\* returns; else the solver runs and its result and details are displayed
_solve_and_display(h, t, typed) ==
    LET a == ApplyEntries(h, h.edges, typed, 1)
        r == solve_backward_induction(a.heap.edges, t)
        d == get_path_details(a.heap.edges, r.next_node)
    IN  IF a.err # "none"
        THEN [heap |-> a.heap, cost_to_go |-> t.cost_to_go, next_node |-> t.next_node,
              ret |-> << >>, err |-> a.err, solved |-> FALSE]
        ELSE [heap |-> a.heap, cost_to_go |-> r.cost_to_go, next_node |-> r.next_node,
              ret |-> <<r.ret, d.ret>>, err |-> "none", solved |-> TRUE]

SolveAndDisplay ==
    /\ nops < MaxOps
    /\ \E s \in SUBSET TypedPairs :
          \E typed \in [s -> TypedTexts] :
             LET r == _solve_and_display(Heap, Tables, typed)
             IN  /\ SetHeap(r.heap)
                 /\ cost_to_go' = r.cost_to_go
                 /\ next_node' = r.next_node
                 /\ ret' = r.ret
                 /\ err' = r.err
                 /\ solved' = IF ~r.solved THEN solved
                              ELSE IF solved = "never" THEN "once" ELSE "again"
                 /\ call' = <<"_solve_and_display", typed>>
    /\ nops' = nops + 1

\* _set_random_weights: the button calls set_random_weights(1, 10)
RandomButton ==
    /\ nops < MaxOps
    /\ \E seed \in Seeds :
          LET r == set_random_weights(Heap, 1, 10, seed)
          IN  /\ SetHeap(r.heap)
              /\ call' = <<"_set_random_weights", seed>>
              /\ err' = r.err
    /\ ret' = << >>
    /\ nops' = nops + 1
    /\ UNCHANGED <<cost_to_go, next_node, solved>>

NextGUI ==
    \/ SolveAndDisplay
    \/ RandomButton
    \/ ResetToDefault
    \/ ResetToZero

SpecGUI == Init /\ [][NextGUI]_vars

----------------------------------------------------------------------------
(* What the claims speak of, stated on the topology itself. *)

Stage(k) == { stages[k + 1][2][i] : i \in DOMAIN stages[k + 1][2] }

\* the weight of edge (a, b) in e
Weight(e, a, b) == DictGet(DictGet(e, a), b)

\* every full path from the source to the sink, one node per stage
FullPaths ==
    { p \in { <<a, b, c, d, z>> : a \in Stage(0), b \in Stage(1), c \in Stage(2),
                                  d \in Stage(3), z \in Stage(4) } :
        \A k \in 1..4 : <<p[k], p[k + 1]>> \in EdgePairs }

RECURSIVE PathCost(_, _, _)
PathCost(e, p, k) ==
    IF k >= Len(p) THEN 0 ELSE Weight(e, p[k], p[k + 1]) + PathCost(e, p, k + 1)

MinPathCost(e) ==
    CHOOSE c \in { PathCost(e, p, 1) : p \in FullPaths } :
        \A p \in FullPaths : c <= PathCost(e, p, 1)

Solved == call[1] = "solve_backward_induction"

Detailed == call[1] = "get_path_details"

\* C1: whatever the weights, the minimum cost solve() returns is the least
\* total weight of a full path from A to J, found by enumerating all of them.
C1_MinimumCostIsBruteForce ==
    Solved => err = "none" /\ ret[1] = Num(MinPathCost(edges))

\* a solve has run on weights other than the default ones, and the cheapest
\* path is not the default one
C1_Witness ==
    /\ Solved
    /\ edges # DefaultEdges
    /\ ret[2] # <<"A", "D", "F", "I", "J">>
    /\ ret[1] = Num(MinPathCost(edges))

\* a fresh object: no weight was changed since construction
Fresh == nops = 0 /\ edges = DefaultEdges

\* C2 as amended: on the default weights solve() returns the minimum cost 11.
C2_DefaultCostIs11 == (Solved /\ Fresh) => ret[1] = Num(11)

\* C2 as stated: on the default weights solve() returns the minimum cost 9.
C2_DefaultCostIs9 == (Solved /\ Fresh) => ret[1] = Num(9)

C2_Witness == Solved /\ Fresh /\ solved = "once"

\* C3: on the default weights solve() returns the path A, D, F, I, J and
\* pathDetails() then returns (A,D,3), (D,F,1), (F,I,3), (I,J,4) in that order.
C3_DefaultPathAndDetails ==
    /\ (Solved /\ Fresh) => ret[2] = <<"A", "D", "F", "I", "J">>
    /\ (Detailed /\ Fresh /\ solved # "never") =>
          /\ err = "none"
          /\ ret = << <<"A", "D", 3>>, <<"D", "F", 1>>, <<"F", "I", 3>>, <<"I", "J", 4>> >>

C3_Witness == Detailed /\ Fresh /\ solved = "once" /\ Len(ret) = 4

RECURSIVE SumWeights(_, _)
SumWeights(details, k) ==
    IF k > Len(details) THEN 0 ELSE details[k][3] + SumWeights(details, k + 1)

\* C4: the path solve() returns runs from A to J over edges of the topology,
\* and pathDetails() called next returns one (from, to, weight) per consecutive
\* pair of that path, in order, whose weights add up to the returned minimum cost.
C4_PathValid ==
    [][ /\ Solved' =>
              /\ ret'[2][1] = "A"
              /\ ret'[2][Len(ret'[2])] = "J"
              /\ \A k \in 1..(Len(ret'[2]) - 1) :
                    <<ret'[2][k], ret'[2][k + 1]>> \in EdgePairs
        /\ (Solved /\ Detailed') =>
              /\ err' = "none"
              /\ Len(ret') = Len(ret[2]) - 1
              /\ \A k \in 1..Len(ret') :
                    ret'[k] = <<ret[2][k], ret[2][k + 1],
                                Weight(edges, ret[2][k], ret[2][k + 1])>>
              /\ ret[1] = Num(SumWeights(ret', 1)) ]_vars

\* pathDetails() has answered after a solve on weights other than the default
C4_Witness ==
    /\ Detailed
    /\ solved # "never"
    /\ edges # DefaultEdges
    /\ Len(ret) = 4
    /\ cost_to_go["A"] = Num(SumWeights(ret, 1))

\* the candidates of node u: weight + cost of the successor, over u's edges
Candidates(e, c, u) ==
    { Weight(e, u, v) + c[v].val : v \in { w \in NodeSet : <<u, w>> \in EdgePairs } }

\* C5: after every solve the cost table satisfies the Bellman equations:
\* cost(J) = 0 and cost(u) = min over u's edges (u, v, w) of w + cost(v).
C5_Bellman ==
    Solved =>
        /\ cost_to_go["J"] = Num(0)
        /\ \A u \in NodeSet : cost_to_go[u].fin
        /\ \A u \in NodeSet \ {"J"} :
              /\ cost_to_go[u].val \in Candidates(edges, cost_to_go, u)
              /\ \A x \in Candidates(edges, cost_to_go, u) : cost_to_go[u].val <= x

\* a second solve, after both allowed weight changes
C5_Witness == Solved /\ solved = "again" /\ nops = MaxOps /\ edges # DefaultEdges

C7_ResetRestoresBaseline ==
    /\ default_edges = DefaultEdges
    /\ call[1] = "reset_to_default" => edges = DefaultEdges

\* a reset after a solve that saw changed weights
C7_Witness ==
    /\ call[1] = "reset_to_default"
    /\ nops = MaxOps
    /\ solved # "never"
    /\ cost_to_go["A"] # Num(MinPathCost(DefaultEdges))

\* C8: setRandomWeights(min, max) with min > max signals an error and leaves
\* every edge weight as it was.
C8_InvalidRangeKeepsWeights ==
    [][ (call'[1] = "set_random_weights" /\ nops' = nops + 1 /\ call'[2] > call'[3]) =>
            /\ err' # "none"
            /\ edges' = edges
            /\ default_edges' = default_edges ]_vars

\* the failing call came after an earlier change of the weights
C8_Witness ==
    /\ call[1] = "set_random_weights"
    /\ call[2] > call[3]
    /\ err = "ValueError"
    /\ edges # DefaultEdges

\* what a solve on a fresh object holding the weights e leaves and returns
FreshSolve(e) ==
    solve_backward_induction(e, [cost_to_go |-> EmptyTable, next_node |-> EmptyTable,
                                 err |-> "none"])

\* C9: a solve, whatever calls came before it, leaves the tables and returns
\* the result of a solve on a fresh object with the same weights; two solves
\* in a row return the same result.
C9_SolveDependsOnWeightsOnly ==
    [][ Solved' =>
            /\ cost_to_go' = FreshSolve(edges').cost_to_go
            /\ next_node' = FreshSolve(edges').next_node
            /\ ret' = FreshSolve(edges').ret
            /\ err' = FreshSolve(edges').err
            /\ Solved => ret' = ret ]_vars

\* a later solve, on weights that are not those of the first
C9_Witness ==
    /\ Solved
    /\ solved = "again"
    /\ nops > 0
    /\ ret[1] # Num(MinPathCost(DefaultEdges))

\* e2 has the nodes and the edges of e1, in the same order
SameTopology(e2, e1) ==
    /\ DOMAIN e2 = DOMAIN e1
    /\ \A i \in DOMAIN e1 :
          /\ e2[i][1] = e1[i][1]
          /\ DOMAIN e2[i][2] = DOMAIN e1[i][2]
          /\ \A j \in DOMAIN e1[i][2] : e2[i][2][j][1] = e1[i][2][j][1]

\* C10: setEdgeWeight(from, to, w) raises nothing, adds no node and no edge,
\* leaves the baseline and both tables alone, gives edge (from, to) the weight
\* w if it exists and changes no other weight (none at all if it does not).
C10_SetEdgeWeightFrame ==
    [][ (call'[1] = "set_edge_weight" /\ nops' = nops + 1) =>
            /\ err' = "none"
            /\ default_edges' = default_edges
            /\ cost_to_go' = cost_to_go
            /\ next_node' = next_node
            /\ SameTopology(edges', edges)
            /\ \A i \in DOMAIN edges : \A j \in DOMAIN edges[i][2] :
                  edges'[i][2][j][2] =
                     IF edges[i][1] = call'[2] /\ edges[i][2][j][1] = call'[3]
                     THEN call'[4]
                     ELSE edges[i][2][j][2] ]_vars

\* a call with a label that is no node, after a solve
C10_Witness ==
    /\ call[1] = "set_edge_weight"
    /\ call[3] = "Z"
    /\ <<call[2], call[3]>> \notin EdgePairs
    /\ solved # "never"


\* the stage of node n
StageOf(n) == CHOOSE k \in 0..4 : n \in Stage(k)

\* C11: let two weight assignments differ only in one edge whose tail lies in
\* a stage later than s.  If the solves give every node of stage s + 1 the same
\* cost under both, they give every node of stage s the same cost and the same
\* next hop.  (The step is the second solve; the unprimed tables are those of
\* the solve before the overwrite.)
C11_StagedDependency ==
    [][ (call[1] = "set_edge_weight" /\ Solved') =>
            \A s \in 0..3 :
               ( /\ StageOf(call[2]) > s
                 /\ \A v \in Stage(s + 1) : cost_to_go'[v] = cost_to_go[v] ) =>
               \A u \in Stage(s) :
                  /\ cost_to_go'[u] = cost_to_go[u]
                  /\ next_node'[u] = next_node[u] ]_vars

\* second solve after H -> J alone was raised from 0: the cost of H changed,
\* the costs of stage 2 did not (its nodes now go through I)
C11_Witness ==
    /\ Solved
    /\ solved = "again"
    /\ Weight(edges, "H", "J") = MaxW
    /\ \A p \in EdgePairs \ {<<"H", "J">>} : Weight(edges, p[1], p[2]) = 0
    /\ cost_to_go["H"] = Num(MaxW)
    /\ \A v \in Stage(2) : cost_to_go[v] = Num(0) /\ next_node[v] = "I"
    /\ next_node["A"] = "B"


\* C12: with every edge into the sink absent, solve() returns an infinite
\* minimum cost and the path made of the source alone, and leaves every node
\* but the sink with infinite cost and no next hop.
C12_UnreachableSink ==
    Solved =>
        /\ err = "none"
        /\ ret[1] = Inf
        /\ ret[2] = <<"A">>
        /\ \A n \in NodeSet \ {"J"} : cost_to_go[n] = Inf /\ next_node[n] = "None"

\* a solve on the topology without sink edges, after the weights were changed
C12_Witness ==
    /\ Solved
    /\ ~ DictHas(DictGet(edges, "H"), "J")
    /\ ~ DictHas(DictGet(edges, "I"), "J")
    /\ nops > 0
    /\ edges # NoSinkEdges
    /\ ret = <<Inf, <<"A">> >>


\* the declared outgoing edges of u, in their declared order
Declared(u) == DictGet(DefaultEdges, u)

\* the positions of u's declared edges whose weight + successor cost is cost(u)
Attaining(e, c, u) ==
    { j \in DOMAIN Declared(u) :
        /\ c[Declared(u)[j][1]].fin
        /\ Weight(e, u, Declared(u)[j][1]) + c[Declared(u)[j][1]].val = c[u].val }

AllZero(e) == \A p \in EdgePairs : Weight(e, p[1], p[2]) = 0

\* C13: after solve(), the next hop of every node but the sink with finite
\* cost is the earliest of its declared successors whose weight + cost attains
\* the node's cost; with all weights zero the path is A, B, E, H, J.
C13_FirstMinimumWins ==
    Solved =>
        /\ \A u \in NodeSet \ {"J"} :
              cost_to_go[u].fin =>
                 /\ Attaining(edges, cost_to_go, u) # {}
                 /\ \E j \in Attaining(edges, cost_to_go, u) :
                       /\ next_node[u] = Declared(u)[j][1]
                       /\ \A k \in Attaining(edges, cost_to_go, u) : j <= k
        /\ AllZero(edges) => ret[2] = <<"A", "B", "E", "H", "J">>

\* a solve on the all-zero weights, where every edge of a node ties
C13_Witness ==
    /\ Solved
    /\ AllZero(edges)
    /\ ret = <<Num(0), <<"A", "B", "E", "H", "J">> >>
    /\ Cardinality(Attaining(edges, cost_to_go, "C")) = 3


\* every entry was applied and the tables recomputed
FullyApplied(e0, typed, e, c, n) ==
    /\ \A p \in EdgePairs :
          /\ int(EntryText(e0, typed, p)).ok
          /\ Weight(e, p[1], p[2]) = int(EntryText(e0, typed, p)).val
    /\ c = FreshSolve(e).cost_to_go
    /\ n = FreshSolve(e).next_node

\* C14: when _solve_and_display fails on an entry that is no integer or is
\* negative, either every entry was applied and the tables recomputed, or the
\* weights and both tables are as they were before the step.
C14_NoPartialStateOnFailure ==
    [][ (call'[1] = "_solve_and_display" /\ nops' = nops + 1 /\ err' # "none") =>
            \/ FullyApplied(edges, call'[2], edges', cost_to_go', next_node')
            \/ /\ edges' = edges
               /\ cost_to_go' = cost_to_go
               /\ next_node' = next_node ]_vars


\* the nodes met from u by following the next hops of table n
RECURSIVE Hops(_, _)
Hops(n, u) == IF u = "J" \/ n[u] = "None" THEN <<u>> ELSE <<u>> \o Hops(n, n[u])

\* C15: pathDetails() reads the next-hop table of the most recent solve and
\* the current weights: a solve returns the path its table spells, no other
\* call changes that table, and pathDetails() after a solve and any weight
\* mutations never fails and returns the edges of that path, in order, each
\* with the weight the edge has when pathDetails() is called.
C15_DetailsReadCurrentWeights ==
    [][ /\ Solved' => ret'[2] = Hops(next_node', "A")
        /\ ~Solved' => next_node' = next_node
        /\ (Detailed' /\ solved' # "never") =>
              /\ err' = "none"
              /\ ret' = [k \in 1..(Len(Hops(next_node', "A")) - 1) |->
                           <<Hops(next_node', "A")[k], Hops(next_node', "A")[k + 1],
                             Weight(edges', Hops(next_node', "A")[k],
                                    Hops(next_node', "A")[k + 1])>>] ]_vars

\* pathDetails() has answered after a solve and a later change of a weight on
\* the solve's path: the weights it reports no longer add up to the cost the
\* solve stored
C15_Witness ==
    /\ Detailed
    /\ solved # "never"
    /\ nops > 0
    /\ Len(ret) = 4
    /\ Num(SumWeights(ret, 1)) # cost_to_go["A"]

====
